---- MODULE Spec2Model ----
(***************************************************************************)
(* Model of example/python/producer.py: the sample generator that feeds    *)
(* the Kafka datasource.  One action per statement of the `while True`     *)
(* loop; Python floats are modelled as a small binary floating-point       *)
(* format (MantBits bits of mantissa instead of 53, round-half-to-even),   *)
(* json.dumps / json.loads as shortest-repr printing and correctly rounded *)
(* parsing of decimal numerals, and time in half time-units.               *)
(***************************************************************************)
EXTENDS Integers, Sequences, FiniteSets, TLC

VARIABLES pc, counter, data, payload, sent, out, hist, now, broker

vars == <<pc, counter, data, payload, sent, out, hist, now, broker>>

(* ------------------------------ bounds --------------------------------- *)

\* iterations of the unbounded loop that are explored
MaxIter == 3

\* mantissa width of the model's floats (53 in a Python float)
MantBits == 3

\* how much longer than asked sleep() may take, in half time-units
MaxOversleep == 1

(* --------------------------- program constants -------------------------- *)

\* sleep(0.5): one half time-unit (times are counted in half time-units)
SleepHalfUnits == 1

\* producer.flush(1): two half time-units
FlushHalfUnits == 2

\* the counter's initial value
CounterStart == 1

Topic == "test"

(* ------------------------------ arithmetic ------------------------------ *)

RECURSIVE Pow(_, _)
Pow(b, n) == IF n = 0 THEN 1 ELSE b * Pow(b, n - 1)

RECURSIVE BitLen(_)
BitLen(v) == IF v = 0 THEN 0 ELSE 1 + BitLen(v \div 2)

Max(a, b) == IF a >= b THEN a ELSE b

Min(a, b) == IF a <= b THEN a ELSE b

SetMax(S) == CHOOSE x \in S : \A y \in S : y <= x

\* random() returns k / RandDenom for an integer 0 <= k < RandDenom
RandDenom == Pow(2, MantBits)

\* a float is held as its numerator over FloatScale; numerators below
\* 2^MantBits are the format's subnormals
FloatScale == Pow(2, 2 * MantBits)

One == FloatScale

\* spacing of the floats in the binade of the integer part f
Spacing(f) == Pow(2, Max(0, BitLen(f) - MantBits))

\* the float nearest to num/den (in units of 1/FloatScale), ties to the
\* even mantissa
RoundNearestEven(num, den) ==
  LET f  == num \div den
      q  == Spacing(f)
      lo == (f \div q) * q
      hi == lo + q
  IN  IF 2 * num < (lo + hi) * den THEN lo
      ELSE IF 2 * num > (lo + hi) * den THEN hi
      ELSE IF (lo \div q) % 2 = 0 THEN lo ELSE hi

FloatAdd(a, b) == RoundNearestEven(a + b, 1)

\* every value random() can return: k / 2^MantBits
RandomOutputs == { k * (FloatScale \div RandDenom) : k \in 0 .. RandDenom - 1 }

\* the generator outputs the loop is explored with: the least and the
\* greatest
LoopRandoms == { r \in RandomOutputs : r = 0 \/ r + FloatScale \div RandDenom = FloatScale }

(* --------------------------- decimal numerals --------------------------- *)

\* a numeral <<d, n>> is the decimal d / 10^n, written with n >= 1 places
ParseFloat(num) == RoundNearestEven(num[1] * FloatScale, Pow(10, num[2]))

\* the n-place numerals next to v that read back as v
Candidates(v, n) ==
  LET lo == (v * Pow(10, n)) \div FloatScale
  IN  { d \in { lo, lo + 1 } : ParseFloat(<<d, n>>) = v }

\* distance between d / 10^n and v, scaled by 10^n * FloatScale
Distance(v, d, n) ==
  LET x == d * FloatScale - v * Pow(10, n)
  IN  IF x < 0 THEN -x ELSE x

RECURSIVE ReprFrom(_, _)
ReprFrom(v, n) ==
  LET C == Candidates(v, n)
  IN  IF C # {}
      THEN <<CHOOSE d \in C : \A e \in C :
                 \/ Distance(v, d, n) < Distance(v, e, n)
                 \/ Distance(v, d, n) = Distance(v, e, n) /\ (d = e \/ d % 2 = 0), n>>
      ELSE ReprFrom(v, n + 1)

\* mutant: one decimal place, "%.1f" % v
FloatReprOnePlace(v) == <<(2 * v * 10 + FloatScale) \div (2 * FloatScale), 1>>

\* float.__repr__: the shortest numeral that reads back as v
FloatRepr(v) == ReprFrom(v, 1)

IsNumeral(x) == /\ DOMAIN x = 1 .. 2
                /\ x[1] \in Nat
                /\ x[2] \in Nat \ {0}

RECURSIVE Digits(_)
Digits(n) == IF n < 10 THEN <<n>> ELSE Append(Digits(n \div 10), n % 10)

RECURSIVE ParseInt(_)
ParseInt(ds) == IF ds = <<>> THEN 0
                ELSE 10 * ParseInt(SubSeq(ds, 1, Len(ds) - 1)) + ds[Len(ds)]

(* ------------------------------ the script ------------------------------ *)

\* mutant: the sequence number travels with the sample
MakeDataWithSeq(r1, r2) ==
  << <<"value1", r1>>, <<"value2", FloatAdd(One, r2)>>, <<"seq", CounterStart * One>> >>

\* the dict literal: keys in insertion order
MakeData(r1, r2) == << <<"value1", r1>>, <<"value2", FloatAdd(One, r2)>> >>

JsonDumps(d) == [ i \in 1 .. Len(d) |-> <<d[i][1], FloatRepr(d[i][2])>> ]

JsonLoads(p) == [ i \in 1 .. Len(p) |-> <<p[i][1], ParseFloat(p[i][2])>> ]

\* "Sample #{} produced!".format(n)
Format(n) == <<"Sample #">> \o Digits(n) \o <<" produced!">>

\* mutant: the counter skips a number
NextCounterSkip(c) == c + 2

NextCounter(c) == c + 1

\* mutant: the progress line is printed after the bounded wait
AfterPrintLast(step) ==
  CASE step = "gen"     -> "dumps"
    [] step = "dumps"   -> "produce"
    [] step = "produce" -> "inc"
    [] step = "inc"     -> "flush"
    [] step = "flush"   -> "print"
    [] step = "print"   -> "sleep"
    [] step = "sleep"   -> "gen"

\* the statement that follows each statement of the loop body
After(step) ==
  CASE step = "gen"     -> "dumps"
    [] step = "dumps"   -> "produce"
    [] step = "produce" -> "print"
    [] step = "print"   -> "inc"
    [] step = "inc"     -> "flush"
    [] step = "flush"   -> "sleep"
    [] step = "sleep"   -> "gen"

Steps == { "gen", "dumps", "produce", "print", "inc", "flush", "sleep" }

Step(op, t0, t1) == [ op |-> op, t0 |-> t0, t1 |-> t1 ]

(* --------------------------- publish interface -------------------------- *)

NeverAck == -1

\* acknowledgment latency of the publish interface, fixed per run: instant,
\* within the flush ceiling, beyond the ceiling, or never
AckDelays == { 0, 1, FlushHalfUnits + 1, NeverAck }

Pending(t) == { i \in 1 .. Len(sent) : broker = NeverAck \/ sent[i].at + broker > t }

\* mutant: flush() without a ceiling returns once everything is acknowledged
FlushReturnsNoCeiling(t, timeout) ==
  IF Pending(t) = {} THEN { t }
  ELSE IF broker = NeverAck THEN {}
  ELSE { SetMax({ sent[i].at + broker : i \in Pending(t) }) }

\* the times at which flush(timeout), called at t, can return
FlushReturns(t, timeout) ==
  IF Pending(t) = {} THEN { t }
  ELSE IF broker = NeverAck THEN { t + timeout }
  ELSE { Min(t + timeout, SetMax({ sent[i].at + broker : i \in Pending(t) })) }

\* mutant: the sleep is skipped
SleepSkipped(secs) == { 0 }

\* sleep(secs) suspends for at least secs
SleepDurations(secs) == secs .. secs + MaxOversleep

\* mutant: the payload is submitted twice
PublishTwice(log, topic, value, t) ==
  Append(Append(log, [ topic |-> topic, value |-> value, at |-> t ]),
         [ topic |-> topic, value |-> value, at |-> t ])

Publish(log, topic, value, t) == Append(log, [ topic |-> topic, value |-> value, at |-> t ])

(* ------------------------------- actions -------------------------------- *)

Init ==
  /\ pc = "gen"
  /\ counter = CounterStart
  /\ data = <<>>
  /\ payload = <<>>
  /\ sent = <<>>
  /\ out = <<>>
  /\ hist = <<>>
  /\ now = 0
  /\ broker \in AckDelays

Gen(S) ==
  /\ pc = "gen"
  /\ counter <= MaxIter
  /\ \E r1 \in S, r2 \in S : data' = MakeData(r1, r2)
  /\ pc' = After("gen")
  /\ hist' = Append(hist, Step("gen", now, now))
  /\ UNCHANGED <<counter, payload, sent, out, now, broker>>

Dumps ==
  /\ pc = "dumps"
  /\ payload' = JsonDumps(data)
  /\ pc' = After("dumps")
  /\ hist' = Append(hist, Step("dumps", now, now))
  /\ UNCHANGED <<counter, data, sent, out, now, broker>>

Produce ==
  /\ pc = "produce"
  /\ sent' = Publish(sent, Topic, payload, now)
  /\ pc' = After("produce")
  /\ hist' = Append(hist, Step("produce", now, now))
  /\ UNCHANGED <<counter, data, payload, out, now, broker>>

\* mutant: the failure of produce() is swallowed and the loop goes on
ProduceRaiseSwallowed ==
  /\ pc = "produce"
  /\ pc' = After("produce")
  /\ hist' = Append(hist, Step("produce", now, now))
  /\ UNCHANGED <<counter, data, payload, sent, out, now, broker>>

ProduceRaise ==
  /\ pc = "produce"
  /\ pc' = "raised"
  /\ hist' = Append(hist, Step("produce", now, now))
  /\ UNCHANGED <<counter, data, payload, sent, out, now, broker>>

PrintLine ==
  /\ pc = "print"
  /\ out' = Append(out, Format(counter))
  /\ pc' = After("print")
  /\ hist' = Append(hist, Step("print", now, now))
  /\ UNCHANGED <<counter, data, payload, sent, now, broker>>

Inc ==
  /\ pc = "inc"
  /\ counter' = NextCounter(counter)
  /\ pc' = After("inc")
  /\ hist' = Append(hist, Step("inc", now, now))
  /\ UNCHANGED <<data, payload, sent, out, now, broker>>

Flush ==
  /\ pc = "flush"
  /\ \E t1 \in FlushReturns(now, FlushHalfUnits) :
       /\ now' = t1
       /\ hist' = Append(hist, Step("flush", now, t1))
  /\ pc' = After("flush")
  /\ UNCHANGED <<counter, data, payload, sent, out, broker>>

Sleep ==
  /\ pc = "sleep"
  /\ \E d \in SleepDurations(SleepHalfUnits) :
       /\ now' = now + d
       /\ hist' = Append(hist, Step("sleep", now, now + d))
  /\ pc' = After("sleep")
  /\ UNCHANGED <<counter, data, payload, sent, out, broker>>

\* the external termination signal
Interrupt ==
  /\ pc \in Steps
  /\ pc' = "killed"
  /\ UNCHANGED <<counter, data, payload, sent, out, hist, now, broker>>

GenLoop == Gen(LoopRandoms)

GenAny == Gen(RandomOutputs)

Body == Dumps \/ Produce \/ PrintLine \/ Inc \/ Flush \/ Sleep

Next == GenLoop \/ Body \/ ProduceRaise \/ Interrupt

Spec == Init /\ [][Next]_vars

\* generation and serialisation of the first sample, over every generator
\* output
NextSample == GenAny \/ Dumps

SampleSpec == Init /\ [][NextSample]_vars

(* ------------------------------ observers ------------------------------- *)

\* iterations that ran to the end of their sleep
Completed == Cardinality({ i \in DOMAIN hist : hist[i].op = "sleep" })

ProduceCalls == { i \in DOMAIN hist : hist[i].op = "produce" }

FlushCalls == { i \in DOMAIN hist : hist[i].op = "flush" }

Value1 == data[1][2]

Value2 == data[2][2]

Two == 2 * One

StepOrder == << "gen", "dumps", "produce", "print", "inc", "flush", "sleep" >>

(* ------------------------------- claims --------------------------------- *)

C1_Lines ==
  /\ counter >= CounterStart
  /\ \A i \in DOMAIN out :
       /\ Len(out[i]) >= 3
       /\ out[i][1] = "Sample #"
       /\ out[i][Len(out[i])] = " produced!"
       /\ ParseInt(SubSeq(out[i], 2, Len(out[i]) - 1)) = i
  /\ pc = "gen" => counter = Completed + 1 /\ Len(out) = Completed

\* C1: the n-th progress line is "Sample #n produced!", the counter starts
\* at 1, is one more than the number of completed iterations at the top of
\* the loop, and no step changes it other than the increment, by exactly 1.
C1_SequenceNumber ==
  /\ []C1_Lines
  /\ [][counter' = counter \/ (pc = "inc" /\ counter' = counter + 1)]_vars

C1_Witness == pc = "gen" /\ Len(out) >= 3 /\ counter = Len(out) + 1

\* C2: with a publish interface that never acknowledges, every flush returns
\* after at most the ceiling of 1 time-unit, and the loop never hangs: at the
\* bounded wait and at the sleep that follows it the next step can always be
\* taken, up to the top of the next iteration.
C2_NeverHangs ==
  broker = NeverAck =>
    /\ \A i \in FlushCalls : hist[i].t1 - hist[i].t0 <= FlushHalfUnits
    /\ pc = "flush" => ENABLED Flush
    /\ pc = "sleep" => ENABLED Sleep
    /\ pc = "gen" => now <= Completed * (FlushHalfUnits + SleepHalfUnits + MaxOversleep)

C2_Witness ==
  /\ broker = NeverAck
  /\ pc = "gen"
  /\ Completed >= 2
  /\ \E i \in FlushCalls : hist[i].t1 - hist[i].t0 = FlushHalfUnits

\* C3: with a publish interface that acknowledges instantly, after N
\* completed iterations exactly N publish calls are recorded, all against
\* "test", and the i-th recorded call is the one made by the i-th iteration's
\* produce step.
C3_OnePublishPerIteration ==
  broker = 0 =>
    /\ pc \in { "gen", "raised" } => Len(sent) = Completed
    /\ Len(sent) \in { Completed, Completed + 1 }
    /\ \A i \in DOMAIN sent :
         /\ sent[i].topic = "test"
         /\ 7 * (i - 1) + 3 \in ProduceCalls
         /\ sent[i].at = hist[7 * (i - 1) + 3].t0

C3_Witness == broker = 0 /\ pc = "gen" /\ Completed >= 2 /\ Len(sent) = Completed

\* C4: at least 0.5 time-units pass between consecutive publish calls, and N
\* completed iterations take at least N x 0.5 time-units, whatever the
\* acknowledgment behaviour.
C4_SleepHonored ==
  /\ \A i \in DOMAIN sent :
       i + 1 \in DOMAIN sent => sent[i + 1].at - sent[i].at >= SleepHalfUnits
  /\ now >= Completed * SleepHalfUnits

C4_Witness == Len(sent) >= 3 /\ Completed >= 2

\* C5: every generated sample has 0 <= value1 < 1 and 1 <= value2 < 2.
C5_Ranges ==
  data # <<>> => /\ 0 <= Value1 /\ Value1 < One
                 /\ One <= Value2 /\ Value2 < Two

\* C6: every published payload is an object with exactly the keys value1 and
\* value2, both numerals; the sequence number is in none of them.
C6_PayloadShape ==
  \A i \in DOMAIN sent :
    LET p == sent[i].value
    IN  /\ Len(p) = 2
        /\ { p[k][1] : k \in DOMAIN p } = { "value1", "value2" }
        /\ \A k \in DOMAIN p : IsNumeral(p[k][2])

C6_Witness == Len(sent) >= 3 /\ counter >= 3

C8_Sequential ==
  /\ \A i \in DOMAIN hist : hist[i].op = StepOrder[((i - 1) % 7) + 1]
  /\ \A i \in DOMAIN hist :
       /\ hist[i].t0 <= hist[i].t1
       /\ i + 1 \in DOMAIN hist => hist[i].t1 <= hist[i + 1].t0
  /\ pc \in { "flush", "sleep" } => Len(out) = Len(sent)
  /\ Len(out) <= Len(sent)

C8_Witness == Len(hist) >= 15 /\ pc = "dumps"

\* C9: the loop has no end of its own: unless the process was stopped by an
\* external signal, the script is at a statement of the loop body and that
\* statement can be executed (up to the explored number of iterations).
C9_RunsForever ==
  pc # "killed" /\ counter <= MaxIter => pc \in Steps /\ ENABLED (GenLoop \/ Body)

\* C10 as stated: in every reachable state the progress lines do not
\* outnumber the successful publish calls and the counter is that number
\* plus 1.
C10_CounterIsPublishedPlusOne ==
  /\ Len(out) <= Len(sent)
  /\ counter = Len(sent) + 1

\* C10 as amended: a failed publish call ends the loop with no line printed
\* for that sample, the counter not incremented and nothing run afterwards;
\* the progress lines never outnumber the successful publish calls; the
\* counter is that number plus 1 except between a successful publish call
\* and the increment that follows it, where it equals that number.
C10_NoRecovery ==
  /\ Len(out) <= Len(sent)
  /\ pc \in { "gen", "dumps", "produce", "flush", "sleep", "raised" }
       => counter = Len(sent) + 1
  /\ pc \in { "print", "inc" } => counter = Len(sent)
  /\ pc = "killed" => counter \in { Len(sent), Len(sent) + 1 }
  /\ pc = "raised" =>
       /\ hist[Len(hist)].op = "produce"
       /\ Len(out) = Len(sent)
       /\ Len(sent) = Cardinality(ProduceCalls) - 1

C10_Witness == pc = "raised" /\ Len(sent) >= 1

====
